---------------------------- MODULE Spec2Model ----------------------------
(***************************************************************************)
(* Calendar guest synchronisation (calendar_automation.py).                *)
(*                                                                         *)
(* Two copies of the script live in the repository:                        *)
(*   "scripts" : scripts/calendar_automation.py  (secondary + tertiary)    *)
(*   "github"  : .github/scripts/calendar_automation.py (secondary only)   *)
(*                                                                         *)
(* A Python str is a sequence of one-character strings, a dict is a        *)
(* function whose DOMAIN is the set of keys that are present, a list is a  *)
(* sequence, and a reference to an element of the list `events` is its     *)
(* index (the lists events_to_update_* hold references, not copies).       *)
(***************************************************************************)
EXTENDS Integers, Sequences, FiniteSets, TLC

VARIABLES
    variant,                      \* which copy of the script is run
    environ,                      \* os.environ: PRIMARY_/SECONDARY_/TERTIARY_EMAIL
    remote,                       \* the calendar held by the remote service
    pc,                           \* position of the process
    self,                         \* the CalendarAutomation object's fields
    events,                       \* process_calendly_events: events
    calendly_events,              \* process_calendly_events: calendly_events
    events_to_update_secondary,   \* ... events_to_update_secondary (events_to_update)
    events_to_update_tertiary,    \* ... events_to_update_tertiary
    i,                            \* index of the update loop that is running
    successful_secondary_updates, \* ... successful_secondary_updates
    successful_tertiary_updates,  \* ... successful_tertiary_updates
    exit_code,                    \* the process's exit status once pc = "exited"
    error,                        \* what ended the run ("none" when nothing did)
    calls,                        \* history: operations of the step just taken
    fetched,                      \* history: the events as events().list returned them
    fetch_ok,                     \* history: events().list succeeded in this run
    patches,                      \* history: the patch calls of this run, in order
    prev,                         \* history: how the previous run ended
    probe                         \* classifier harness: one event and its verdict

vars == << variant, environ, remote, pc, self, events, calendly_events,
           events_to_update_secondary, events_to_update_tertiary, i,
           successful_secondary_updates, successful_tertiary_updates,
           exit_code, error, calls, fetched, fetch_ok, patches, prev, probe >>

-----------------------------------------------------------------------------
(* Bounds of the model *)

\* most events on the remote calendar
MaxEvents == 2

\* most words concatenated into one text field of a classifier input
MaxWords == 2

-----------------------------------------------------------------------------
(* Python values *)

Range(f) == { f[k] : k \in DOMAIN f }

\* None: a value different from every str (a str has one-character elements)
None == << "None" >>

EmptyDict == [k \in {} |-> k]

\* dict.get(key, default)
Get(d, key, default) == IF key \in DOMAIN d THEN d[key] ELSE default

\* truth value of an Optional[str]: None and "" are false
Truthy(s) == s # None /\ s # << >>

ascii_uppercase ==
    << "A","B","C","D","E","F","G","H","I","J","K","L","M",
       "N","O","P","Q","R","S","T","U","V","W","X","Y","Z" >>

ascii_lowercase ==
    << "a","b","c","d","e","f","g","h","i","j","k","l","m",
       "n","o","p","q","r","s","t","u","v","w","x","y","z" >>

LowerTable ==
    [c \in Range(ascii_uppercase) |->
        ascii_lowercase[CHOOSE k \in DOMAIN ascii_uppercase : ascii_uppercase[k] = c]]

\* str.lower()
lower(s) ==
    [k \in DOMAIN s |-> IF s[k] \in DOMAIN LowerTable THEN LowerTable[s[k]] ELSE s[k]]

\* `t in s` for two str
Contains(s, t) ==
    \E k \in 0 .. (Len(s) - Len(t)) : SubSeq(s, k + 1, k + Len(t)) = t

\* any(list of bool)
any(l) == \E k \in DOMAIN l : l[k]

-----------------------------------------------------------------------------
(* String literals of the source *)

calendly == << "c","a","l","e","n","d","l","y" >>

calendly_com == calendly \o << ".","c","o","m" >>

buffer == << "b","u","f","f","e","r" >>

\* default of TERTIARY_EMAIL
default_tertiary_email ==
    << "e","r","i","c",".","m","a","@","m","o","d","e","r","n","a","t","x",".","c","o","m" >>

accepted == "accepted"

-----------------------------------------------------------------------------
(* is_calendly_event *)

\* without the source-title check
is_calendly_event_no_source(event) ==
    LET summary == lower(Get(event, "summary", << >>))
        description == lower(Get(event, "description", << >>))
        location == lower(Get(event, "location", << >>))
    IN  IF Contains(summary, buffer)
        THEN FALSE
        ELSE LET indicators0 == << Contains(description, calendly_com),
                                   Contains(location, calendly_com),
                                   Contains(summary, calendly),
                                   Contains(description, calendly) >>
                 organizer == Get(event, "organizer", EmptyDict)
                 organizer_email == Get(organizer, "email", << >>)
                 indicators1 == IF Contains(lower(organizer_email), calendly)
                                THEN Append(indicators0, TRUE)
                                ELSE indicators0
             IN  any(indicators1)

\* scripts/calendar_automation.py
is_calendly_event(event) ==
    LET summary == lower(Get(event, "summary", << >>))
        description == lower(Get(event, "description", << >>))
        location == lower(Get(event, "location", << >>))
    IN  IF Contains(summary, buffer)
        THEN FALSE
        ELSE LET indicators0 == << Contains(description, calendly_com),
                                   Contains(location, calendly_com),
                                   Contains(summary, calendly),
                                   Contains(description, calendly) >>
                 organizer == Get(event, "organizer", EmptyDict)
                 organizer_email == Get(organizer, "email", << >>)
                 indicators1 == IF Contains(lower(organizer_email), calendly)
                                THEN Append(indicators0, TRUE)
                                ELSE indicators0
                 source == Get(event, "source", EmptyDict)
                 indicators2 == IF Contains(lower(Get(source, "title", << >>)), calendly)
                                THEN Append(indicators1, TRUE)
                                ELSE indicators1
             IN  any(indicators2)

\* .github/scripts/calendar_automation.py: no buffer exclusion
github_is_calendly_event(event) ==
    LET summary == lower(Get(event, "summary", << >>))
        description == lower(Get(event, "description", << >>))
        location == lower(Get(event, "location", << >>))
        indicators0 == << Contains(description, calendly_com),
                          Contains(location, calendly_com),
                          Contains(summary, calendly),
                          Contains(description, calendly) >>
        organizer == Get(event, "organizer", EmptyDict)
        organizer_email == Get(organizer, "email", << >>)
        indicators1 == IF Contains(lower(organizer_email), calendly)
                       THEN Append(indicators0, TRUE)
                       ELSE indicators0
        source == Get(event, "source", EmptyDict)
        indicators2 == IF Contains(lower(Get(source, "title", << >>)), calendly)
                       THEN Append(indicators1, TRUE)
                       ELSE indicators1
    IN  any(indicators2)

\* self.is_calendly_event of the copy that is run
IsCalendly(v, event) ==
    IF v = "github" THEN github_is_calendly_event(event) ELSE is_calendly_event(event)

-----------------------------------------------------------------------------
(* has_email_as_guest, add_email_as_guest *)

\* compares the addresses as written, without .lower()
has_email_as_guest_exact(event, email) ==
    LET attendees == Get(event, "attendees", << >>)
    IN  \E k \in DOMAIN attendees : Get(attendees[k], "email", << >>) = email

\* has_email_as_guest (github copy: has_secondary_email_as_guest)
has_email_as_guest(event, email) ==
    LET attendees == Get(event, "attendees", << >>)
    IN  \E k \in DOMAIN attendees :
            lower(Get(attendees[k], "email", << >>)) = lower(email)

\* an HttpError of the patch call is not caught
add_email_as_guest_uncaught(event, email, ok) ==
    LET attendees == Append(Get(event, "attendees", << >>),
                            [email |-> email, responseStatus |-> accepted])
    IN  [ event |-> IF "attendees" \in DOMAIN event
                    THEN [event EXCEPT !["attendees"] = attendees]
                    ELSE event,
          event_id |-> event["id"],
          body |-> [attendees |-> attendees],
          returned |-> ok,
          raised |-> ~ok ]

\* add_email_as_guest (github copy: add_secondary_email_as_guest).
\* `ok` is the outcome of events().patch(...).execute(): FALSE is an HttpError.
\* event.get("attendees", []) is the event's own list when the key is present,
\* and the append then changes the event held in `events`; when the key is absent
\* it is a new list that the event never holds.
add_email_as_guest(event, email, ok) ==
    LET attendees == Append(Get(event, "attendees", << >>),
                            [email |-> email, responseStatus |-> accepted])
    IN  [ event |-> IF "attendees" \in DOMAIN event
                    THEN [event EXCEPT !["attendees"] = attendees]
                    ELSE event,
          event_id |-> event["id"],
          body |-> [attendees |-> attendees],
          returned |-> ok,
          raised |-> FALSE ]

\* the remote service's events().patch(eventId, body): the fields of body replace
\* the event's, every other field is kept
patch_event(calendar, event_id, body) ==
    [k \in DOMAIN calendar |->
        IF calendar[k]["id"] = event_id
        THEN [key \in DOMAIN calendar[k] \cup DOMAIN body |->
                 IF key \in DOMAIN body THEN body[key] ELSE calendar[k][key]]
        ELSE calendar[k]]

-----------------------------------------------------------------------------
(* _get_credentials *)

\* what _get_credentials finds on disk and in the environment:
\* token.pickle, the outcome of creds.refresh, oauth2_credentials.json and
\* GITHUB_ACTIONS (scripts); google-credentials.json and GOOGLE_CREDENTIALS (github)
CredentialInputs(v) ==
    IF v = "github"
    THEN [ service_account_file : {"missing", "unreadable", "ok"},
           GOOGLE_CREDENTIALS : {"unset", "badjson", "ok"} ]
    ELSE [ token : {"missing", "corrupt", "valid", "expired", "invalid"},
           refresh_ok : BOOLEAN,
           oauth2_credentials : BOOLEAN,
           GITHUB_ACTIONS : BOOLEAN ]

\* _get_new_credentials: [ok, calls]
get_new_credentials(c) ==
    IF ~c.oauth2_credentials THEN [ok |-> FALSE, calls |-> << >>]
    ELSE IF c.GITHUB_ACTIONS THEN [ok |-> FALSE, calls |-> << >>]
    ELSE [ok |-> TRUE, calls |-> << "flow.run_local_server" >>]

\* _get_credentials of scripts/calendar_automation.py: [ok, calls];
\* ok = FALSE is the ValueError
get_credentials(c) ==
    LET creds == IF c.token \in {"missing", "corrupt"} THEN "none" ELSE c.token
    IN  IF creds = "valid"
        THEN [ok |-> TRUE, calls |-> << "_get_credentials" >>]
        ELSE IF creds = "expired"
        THEN IF c.refresh_ok
             THEN [ok |-> TRUE, calls |-> << "_get_credentials", "creds.refresh" >>]
             ELSE LET new == get_new_credentials(c)
                  IN  [ok |-> new.ok,
                       calls |-> << "_get_credentials", "creds.refresh" >> \o new.calls]
        ELSE LET new == get_new_credentials(c)
             IN  [ok |-> new.ok, calls |-> << "_get_credentials" >> \o new.calls]

\* _get_credentials of .github/scripts/calendar_automation.py
github_get_credentials(c) ==
    IF c.service_account_file = "ok"
    THEN [ok |-> TRUE, calls |-> << "_get_credentials" >>]
    ELSE IF c.GOOGLE_CREDENTIALS = "ok"
    THEN [ok |-> TRUE, calls |-> << "_get_credentials" >>]
    ELSE [ok |-> FALSE, calls |-> << "_get_credentials" >>]

-----------------------------------------------------------------------------
(* get_recent_events *)

\* an HttpError of the list call is not caught
get_recent_events_uncaught(calendar, ok) ==
    [ events |-> IF ok THEN calendar ELSE << >>, raised |-> ~ok ]

\* get_recent_events. `ok` is the outcome of events().list(...).execute(): FALSE
\* is an HttpError, which is caught and answered with []
get_recent_events(calendar, ok) ==
    [ events |-> IF ok THEN calendar ELSE << >>, raised |-> FALSE ]

-----------------------------------------------------------------------------
(* process_calendly_events: the partition of the fetched events *)

Indexes(evs) == [k \in 1 .. Len(evs) |-> k]

\* every event is taken, classified or not
calendly_refs_unclassified(v, evs) == Indexes(evs)

\* calendly_events, as references into events
calendly_refs(v, evs) ==
    SelectSeq(Indexes(evs), LAMBDA k : IsCalendly(v, evs[k]))

\* events_to_update_secondary / events_to_update_tertiary / events_to_update
events_to_update(v, evs, email) ==
    SelectSeq(calendly_refs(v, evs), LAMBDA k : ~has_email_as_guest(evs[k], email))

-----------------------------------------------------------------------------
(* Inputs *)

Variants == {"scripts", "github"}

me_at_x == << "m","e","@","x" >>
a_at_x == << "a","@","x" >>
A_at_x == << "A","@","x" >>
c_at_x == << "c","@","x" >>

\* the dicts that hold `key` with one of the values, or do not hold it
Optional(key, values) == { EmptyDict } \cup { key :> v : v \in values }

\* os.environ: each variable unset or set
Environs ==
    { p @@ s @@ t :
        p \in Optional("PRIMARY_EMAIL", {me_at_x}),
        s \in Optional("SECONDARY_EMAIL", {a_at_x}),
        t \in Optional("TERTIARY_EMAIL", {A_at_x}) }

\* os.getenv(key) and os.getenv(key, default)
getenv(env, key, default) == Get(env, key, default)

Guest(email) == [email |-> email, responseStatus |-> "needsAction"]

\* attendee lists of an event as the service returns it: the key is absent when
\* the event has no guests
AttendeeLists == Optional("attendees", { << Guest(c_at_x) >>, << Guest(A_at_x) >> })

W_Chat == << "C","h","a","t" >>
W_Calendly == << "C","a","l","e","n","d","l","y" >>
W_BUFFER == << "B","U","F","F","E","R" >>
W_dot_COM == << ".","C","O","M" >>
W_zoom == << "z","o","o","m" >>

\* the text fields of the events on the calendar: a booking, a buffer around a
\* booking, and an event made by hand
EventKinds ==
    { [summary |-> W_Chat, description |-> W_Calendly \o W_dot_COM],
      [summary |-> W_Calendly \o W_BUFFER],
      [summary |-> W_Chat] }

EventShapes == { kind @@ a : kind \in EventKinds, a \in AttendeeLists }

\* the calendars of at most MaxEvents events, in start-time order; an event's id
\* is its position
Calendars ==
    UNION { { [k \in 1 .. n |-> ("id" :> k) @@ shapes[k]] : shapes \in [1 .. n -> EventShapes] } :
            n \in 0 .. MaxEvents }

\* the concatenations of at most n of the words
RECURSIVE Texts(_, _)
Texts(words, n) ==
    IF n = 0 THEN { << >> }
    ELSE LET shorter == Texts(words, n - 1)
         IN  shorter \cup { t \o w : t \in shorter, w \in words }

\* the events the classifier is applied to: every field absent, empty or a text
ClassifierInputs ==
    { s @@ d @@ l @@ o @@ src :
        s \in Optional("summary", Texts({W_Calendly, W_BUFFER, W_Chat}, MaxWords)),
        d \in Optional("description", Texts({W_Calendly, W_dot_COM}, MaxWords)),
        l \in Optional("location", Texts({W_Calendly, W_dot_COM}, MaxWords)),
        o \in Optional("organizer", { EmptyDict, [email |-> c_at_x],
                                      [email |-> << "x","@" >> \o W_Calendly] }),
        src \in Optional("source", { EmptyDict, [title |-> W_zoom],
                                     [title |-> W_Calendly] }) }

-----------------------------------------------------------------------------
(* The process: main() *)

NoProbe == [event |-> EmptyDict, done |-> FALSE, result |-> FALSE]

\* the state of a process that has not started: nothing is kept between runs
Fresh ==
    /\ pc' = "main"
    /\ self' = EmptyDict
    /\ events' = << >>
    /\ calendly_events' = << >>
    /\ events_to_update_secondary' = << >>
    /\ events_to_update_tertiary' = << >>
    /\ i' = 0
    /\ successful_secondary_updates' = 0
    /\ successful_tertiary_updates' = 0
    /\ exit_code' = 0
    /\ error' = "none"
    /\ calls' = << >>
    /\ fetched' = << >>
    /\ fetch_ok' = FALSE
    /\ patches' = << >>

Init ==
    /\ variant \in Variants
    /\ environ \in Environs
    /\ remote \in Calendars
    /\ pc = "main"
    /\ self = EmptyDict
    /\ events = << >>
    /\ calendly_events = << >>
    /\ events_to_update_secondary = << >>
    /\ events_to_update_tertiary = << >>
    /\ i = 0
    /\ successful_secondary_updates = 0
    /\ successful_tertiary_updates = 0
    /\ exit_code = 0
    /\ error = "none"
    /\ calls = << >>
    /\ fetched = << >>
    /\ fetch_ok = FALSE
    /\ patches = << >>
    /\ prev = "none"
    /\ probe = NoProbe

\* sys.exit(code), or the traceback of an exception that main re-raises
Exit(code, err) ==
    /\ pc' = "exited"
    /\ exit_code' = code
    /\ error' = err

\* CalendarAutomation.__init__ under main's try: the fields, the credentials,
\* the service, then the two checks, then _list_calendars
Construct ==
    /\ pc = "main"
    /\ \E c \in CredentialInputs(variant) :
        LET primary_email == getenv(environ, "PRIMARY_EMAIL", None)
            secondary_email == getenv(environ, "SECONDARY_EMAIL", None)
            tertiary_email == getenv(environ, "TERTIARY_EMAIL", default_tertiary_email)
            credentials == IF variant = "github"
                           THEN github_get_credentials(c)
                           ELSE get_credentials(c)
        IN  /\ self' = IF variant = "github"
                       THEN [primary_email |-> primary_email,
                             secondary_email |-> secondary_email]
                       ELSE [primary_email |-> primary_email,
                             secondary_email |-> secondary_email,
                             tertiary_email |-> tertiary_email]
            /\ IF ~credentials.ok
               THEN /\ Exit(1, "credentials")
                    /\ calls' = credentials.calls
               ELSE IF ~Truthy(primary_email)
               THEN /\ Exit(1, "PRIMARY_EMAIL")
                    /\ calls' = credentials.calls \o << "build" >>
               ELSE IF ~Truthy(secondary_email)
               THEN /\ Exit(1, "SECONDARY_EMAIL")
                    /\ calls' = credentials.calls \o << "build" >>
               ELSE /\ pc' = "process"
                    /\ calls' = credentials.calls \o << "build", "calendarList.list" >>
                    /\ UNCHANGED << exit_code, error >>
    /\ UNCHANGED << variant, environ, remote, events, calendly_events,
                    events_to_update_secondary, events_to_update_tertiary, i,
                    successful_secondary_updates, successful_tertiary_updates,
                    fetched, fetch_ok, patches, prev, probe >>

\* where the run goes once the loop over `list` has handled its element `done`
\* (0: the loop has not started)
AfterSecondary(done, secondary, tertiary) ==
    IF done < Len(secondary) THEN "update_secondary"
    ELSE IF Len(tertiary) > 0 THEN "update_tertiary"
    ELSE "exited"

\* process_calendly_events up to its first patch call: get_recent_events, the
\* partition, and the two early returns
Fetch ==
    /\ pc = "process"
    /\ \E ok \in BOOLEAN :
        LET listed == get_recent_events(remote, ok)
            evs == listed.events
            secondary == events_to_update(variant, evs, self["secondary_email"])
            tertiary == IF variant = "github" THEN << >>
                        ELSE events_to_update(variant, evs, self["tertiary_email"])
        IN  /\ fetch_ok' = ok
            /\ fetched' = evs
            /\ events' = evs
            /\ IF listed.raised
               THEN /\ Exit(1, "HttpError")
                    /\ UNCHANGED << calendly_events, events_to_update_secondary,
                                    events_to_update_tertiary, i >>
               ELSE IF evs = << >>
               THEN /\ Exit(0, "none")
                    /\ UNCHANGED << calendly_events, events_to_update_secondary,
                                    events_to_update_tertiary, i >>
               ELSE /\ calendly_events' = calendly_refs(variant, evs)
                    /\ events_to_update_secondary' = secondary
                    /\ events_to_update_tertiary' = tertiary
                    /\ pc' = AfterSecondary(0, secondary, tertiary)
                    /\ i' = IF Len(secondary) + Len(tertiary) > 0 THEN 1 ELSE 0
                    /\ UNCHANGED << exit_code, error >>
    /\ calls' = << "events.list" >>
    /\ UNCHANGED << variant, environ, remote, self, successful_secondary_updates,
                    successful_tertiary_updates, patches, prev, probe >>

\* one patch call of this run, as the history keeps it
PatchRecord(ref, email, r, ok) ==
    [ ref |-> ref, event_id |-> r.event_id, email |-> email,
      before |-> Get(remote[CHOOSE k \in DOMAIN remote : remote[k]["id"] = r.event_id],
                     "attendees", << >>),
      body |-> r.body["attendees"], ok |-> ok, returned |-> r.returned ]

\* one turn of `for event in events_to_update_secondary`
UpdateSecondary ==
    /\ pc = "update_secondary"
    /\ \E ok \in BOOLEAN :
        LET ref == events_to_update_secondary[i]
            email == self["secondary_email"]
            r == add_email_as_guest(events[ref], email, ok)
            next == AfterSecondary(i, events_to_update_secondary, events_to_update_tertiary)
        IN  /\ events' = [events EXCEPT ![ref] = r.event]
            /\ remote' = IF ok THEN patch_event(remote, r.event_id, r.body) ELSE remote
            /\ patches' = Append(patches, PatchRecord(ref, email, r, ok))
            /\ IF r.raised
               THEN /\ Exit(1, "HttpError")
                    /\ UNCHANGED << i, successful_secondary_updates >>
               ELSE /\ successful_secondary_updates' =
                          successful_secondary_updates + (IF r.returned THEN 1 ELSE 0)
                    /\ pc' = next
                    /\ i' = IF next = "update_secondary" THEN i + 1 ELSE 1
                    /\ UNCHANGED << exit_code, error >>
    /\ calls' = << "events.patch" >>
    /\ UNCHANGED << variant, environ, self, calendly_events, events_to_update_secondary,
                    events_to_update_tertiary, successful_tertiary_updates,
                    fetched, fetch_ok, prev, probe >>

\* one turn of `for event in events_to_update_tertiary`
UpdateTertiary ==
    /\ pc = "update_tertiary"
    /\ \E ok \in BOOLEAN :
        LET ref == events_to_update_tertiary[i]
            email == self["tertiary_email"]
            r == add_email_as_guest(events[ref], email, ok)
        IN  /\ events' = [events EXCEPT ![ref] = r.event]
            /\ remote' = IF ok THEN patch_event(remote, r.event_id, r.body) ELSE remote
            /\ patches' = Append(patches, PatchRecord(ref, email, r, ok))
            /\ IF r.raised
               THEN /\ Exit(1, "HttpError")
                    /\ UNCHANGED << i, successful_tertiary_updates >>
               ELSE /\ successful_tertiary_updates' =
                          successful_tertiary_updates + (IF r.returned THEN 1 ELSE 0)
                    /\ pc' = IF i < Len(events_to_update_tertiary)
                             THEN "update_tertiary" ELSE "exited"
                    /\ i' = IF i < Len(events_to_update_tertiary) THEN i + 1 ELSE i
                    /\ UNCHANGED << exit_code, error >>
    /\ calls' = << "events.patch" >>
    /\ UNCHANGED << variant, environ, self, calendly_events, events_to_update_secondary,
                    events_to_update_tertiary, successful_secondary_updates,
                    fetched, fetch_ok, prev, probe >>

\* every patch call of the run succeeded, after a listing that succeeded
CleanRun ==
    /\ pc = "exited"
    /\ exit_code = 0
    /\ fetch_ok
    /\ \A k \in DOMAIN patches : patches[k].ok

\* the script is started again (it is run on a schedule)
Restart ==
    /\ pc = "exited"
    /\ prev' = IF CleanRun THEN "clean" ELSE "other"
    /\ Fresh
    /\ UNCHANGED << variant, environ, remote, probe >>

Next == Construct \/ Fetch \/ UpdateSecondary \/ UpdateTertiary \/ Restart

Spec == Init /\ [][Next]_vars

-----------------------------------------------------------------------------
(* The classifier alone *)

InitClassify ==
    /\ variant \in Variants
    /\ probe \in [event : ClassifierInputs, done : {FALSE}, result : {FALSE}]
    /\ environ = EmptyDict
    /\ remote = << >>
    /\ pc = "classify"
    /\ self = EmptyDict
    /\ events = << >>
    /\ calendly_events = << >>
    /\ events_to_update_secondary = << >>
    /\ events_to_update_tertiary = << >>
    /\ i = 0
    /\ successful_secondary_updates = 0
    /\ successful_tertiary_updates = 0
    /\ exit_code = 0
    /\ error = "none"
    /\ calls = << >>
    /\ fetched = << >>
    /\ fetch_ok = FALSE
    /\ patches = << >>
    /\ prev = "none"

\* self.is_calendly_event(event)
Classify ==
    /\ pc = "classify"
    /\ ~probe.done
    /\ probe' = [probe EXCEPT !.done = TRUE, !.result = IsCalendly(variant, probe.event)]
    /\ UNCHANGED << variant, environ, remote, pc, self, events, calendly_events,
                    events_to_update_secondary, events_to_update_tertiary, i,
                    successful_secondary_updates, successful_tertiary_updates,
                    exit_code, error, calls, fetched, fetch_ok, patches, prev >>

NextClassify == Classify

SpecClassify == InitClassify /\ [][NextClassify]_vars

-----------------------------------------------------------------------------
(* Vocabulary of the properties *)

\* two addresses are the same guest: equal up to letter case
SameAddress(a, b) == lower(a) = lower(b)

\* the attendee list of an event ([] when the event has no attendees field)
AttendeesOf(event) == IF "attendees" \in DOMAIN event THEN event["attendees"] ELSE << >>

\* the address is a guest of the event
Present(event, email) ==
    \E k \in DOMAIN AttendeesOf(event) : SameAddress(AttendeesOf(event)[k]["email"], email)

\* no two entries of the attendee list are the same guest
UniqueGuests(attendees) ==
    \A j, k \in DOMAIN attendees :
        j # k => ~SameAddress(attendees[j]["email"], attendees[k]["email"])

IsPrefix(s, t) == Len(s) <= Len(t) /\ SubSeq(t, 1, Len(s)) = s

\* the event of the remote calendar with this id
RemoteEvent(event_id) == remote[CHOOSE k \in DOMAIN remote : remote[k]["id"] = event_id]

\* the target addresses the copy that is run is configured with
Targets ==
    IF variant = "github" THEN { self["secondary_email"] }
    ELSE { self["secondary_email"], self["tertiary_email"] }

\* the text of a field, "" when the field is absent
Text(event, key) == IF key \in DOMAIN event THEN event[key] ELSE << >>

\* the text contains the token, letter case ignored
Mentions(text, token) == Contains(lower(text), lower(token))

\* the (event, email) pairs the partition found to update, in the order of the loops
Pending ==
    [k \in 1 .. Len(events_to_update_secondary) |->
        << events_to_update_secondary[k], self["secondary_email"] >>]
    \o
    [k \in 1 .. Len(events_to_update_tertiary) |->
        << events_to_update_tertiary[k], self["tertiary_email"] >>]

\* the (event, email) pairs a patch call was issued for, in order
Issued == [k \in DOMAIN patches |-> << patches[k].ref, patches[k].email >>]

-----------------------------------------------------------------------------
(* C1 *)

\* C1: after a run whose listing and patch calls all succeeded, every fetched
\* event classified as externally scheduled has every configured target address
\* among its remote attendees, whatever its attendee list was (absent included).
C1_AllTargetsPresent ==
    CleanRun =>
        \A k \in DOMAIN fetched :
            IsCalendly(variant, fetched[k]) =>
                \A t \in Targets : Present(RemoteEvent(fetched[k]["id"]), t)

-----------------------------------------------------------------------------
(* C2 *)

\* C2: every attendee list a patch call submits has the event's remote attendee
\* list of that moment as a prefix: nothing is removed or reordered.
C2_AppendOnly ==
    \A k \in DOMAIN patches : IsPrefix(patches[k].before, patches[k].body)

-----------------------------------------------------------------------------
(* C3 *)

\* C3: a run that follows a run whose listing and patch calls all succeeded, and
\* that lists the calendar that run left, issues no patch call.
C3_SecondRunWritesNothing ==
    (prev = "clean" /\ fetch_ok) => patches = << >>

-----------------------------------------------------------------------------
(* C4 *)

\* C4: a finished run has issued the patch call of every pending (event, email)
\* pair, in order, whichever of the calls failed: a failed call ends nothing.
C4_BatchIsolation ==
    (pc = "exited" /\ fetch_ok) => Issued = Pending

\* a run in which a call for event X failed, a later call for X succeeded and a
\* later call for another event succeeded
C4_Witness ==
    /\ pc = "exited"
    /\ \E j, k, m \in DOMAIN patches :
        /\ j < k /\ j < m
        /\ ~patches[j].ok /\ patches[k].ok /\ patches[m].ok
        /\ patches[k].ref = patches[j].ref /\ patches[k].email # patches[j].email
        /\ patches[m].ref # patches[j].ref

-----------------------------------------------------------------------------
(* C5 *)

\* C5: an event whose summary contains "buffer" in any letter case is classified
\* false, whatever its other fields are.
C5_BufferExcluded ==
    (probe.done /\ Mentions(Text(probe.event, "summary"), buffer)) => ~probe.result

-----------------------------------------------------------------------------
(* C6 *)

\* the six signals, each on the field's text with letter case ignored
SixSignals(event) ==
    \/ Mentions(Text(event, "description"), calendly_com)
    \/ Mentions(Text(event, "location"), calendly_com)
    \/ Mentions(Text(event, "summary"), calendly)
    \/ Mentions(Text(event, "description"), calendly)
    \/ Mentions(Text(Text(event, "organizer"), "email"), calendly)
    \/ Mentions(Text(Text(event, "source"), "title"), calendly)

\* C6: an event whose summary does not contain "buffer" is classified true
\* exactly when one of the six signals holds, an absent field counting as "".
C6_SixSignals ==
    (probe.done /\ ~Mentions(Text(probe.event, "summary"), buffer)) =>
        (probe.result <=> SixSignals(probe.event))

\* an event with no summary, description or location, classified true by the
\* title of its source alone
C6_Witness ==
    /\ variant = "scripts"
    /\ probe.done
    /\ probe.result
    /\ DOMAIN probe.event = {"source"}

-----------------------------------------------------------------------------
(* C7 *)

\* C7: a patch call adds address t to event E only if no attendee of E as
\* fetched is t up to letter case.
C7_OnlyMissingTargets ==
    \A k \in DOMAIN patches : ~Present(fetched[patches[k].ref], patches[k].email)

\* a finished run that patched a classified event for one target and not for the
\* other, which the fetched event already had under another letter case
C7_Witness ==
    /\ pc = "exited"
    /\ \E k \in DOMAIN fetched, t \in Targets :
        /\ IsCalendly(variant, fetched[k])
        /\ Present(fetched[k], t)
        /\ \A n \in DOMAIN AttendeesOf(fetched[k]) : AttendeesOf(fetched[k])[n]["email"] # t
        /\ \E p \in DOMAIN patches : patches[p].ref = k

-----------------------------------------------------------------------------
(* C8 *)

\* C8: when every fetched attendee list has unique guests (up to letter case),
\* so has every attendee list a patch call submits.
C8_NoDuplicateGuests ==
    (\A k \in DOMAIN fetched : UniqueGuests(AttendeesOf(fetched[k]))) =>
        \A p \in DOMAIN patches : UniqueGuests(patches[p].body)

-----------------------------------------------------------------------------
(* C9 *)

\* C9: no patch call is issued for an event classified false, and such an event
\* is on the remote calendar as it was fetched.
C9_OthersUntouched ==
    /\ \A p \in DOMAIN patches : IsCalendly(variant, fetched[patches[p].ref])
    /\ \A k \in DOMAIN fetched :
        ~IsCalendly(variant, fetched[k]) => RemoteEvent(fetched[k]["id"]) = fetched[k]

\* a finished run that patched some event and fetched an event classified false
\* that lacks a target
C9_Witness ==
    /\ pc = "exited"
    /\ patches # << >>
    /\ \E k \in DOMAIN fetched, t \in Targets :
        ~IsCalendly(variant, fetched[k]) /\ ~Present(fetched[k], t)

-----------------------------------------------------------------------------
(* C10 *)

\* the operations that leave the process: the token refresh and the OAuth flow of
\* the credential acquisition, and the calls of the calendar service (reading a
\* token or key file from disk is not counted)
RemoteOperations ==
    { "creds.refresh", "flow.run_local_server",
      "calendarList.list", "events.list", "events.patch" }

\* C10: a run ended by a missing PRIMARY_EMAIL or SECONDARY_EMAIL exits non-zero
\* and did none of the credential or service operations before the error.
C10_ConfigErrorFirst ==
    (pc = "exited" /\ error \in {"PRIMARY_EMAIL", "SECONDARY_EMAIL"}) =>
        /\ exit_code # 0
        /\ \A k \in DOMAIN calls : calls[k] \notin RemoteOperations

-----------------------------------------------------------------------------
(* C11 *)

\* the process left process_calendly_events: its last step was the listing or a
\* patch call, so the configuration and the credentials were valid
EndedInProcessing ==
    /\ pc = "exited"
    /\ calls \in { << "events.list" >>, << "events.patch" >> }

\* C11: a run whose configuration and credentials are valid ends with exit code
\* 0, whichever of its patch calls failed.
C11_ExitZeroDespiteFailures ==
    EndedInProcessing => exit_code = 0

\* a finished run that issued patch calls, all of which failed
C11_Witness ==
    /\ EndedInProcessing
    /\ Len(patches) > 1
    /\ \A k \in DOMAIN patches : ~patches[k].ok

-----------------------------------------------------------------------------
(* C12 *)

\* the state process_calendly_events ends in when there is nothing to do: no
\* event held, none classified, no patch call, no update counted, exit code 0
NothingDone ==
    /\ pc = "exited"
    /\ exit_code = 0
    /\ error = "none"
    /\ events = << >>
    /\ calendly_events = << >>
    /\ events_to_update_secondary = << >>
    /\ events_to_update_tertiary = << >>
    /\ patches = << >>
    /\ successful_secondary_updates = 0
    /\ successful_tertiary_updates = 0

\* C12: a listing that fails with a remote error gives an empty working set, and
\* the run ends as a run that listed an empty calendar ends: no patch call, zero
\* classified events, zero updates, exit code 0.
C12_FailedListingIsEmptyRun ==
    (calls = << "events.list" >> /\ (~fetch_ok \/ fetched = << >>)) => NothingDone

\* the listing failed on a calendar that holds a classified event lacking a target
C12_Witness ==
    /\ calls = << "events.list" >>
    /\ ~fetch_ok
    /\ \E k \in DOMAIN remote :
        IsCalendly(variant, remote[k]) /\ ~Present(remote[k], self["secondary_email"])

-----------------------------------------------------------------------------
(* C13 *)

\* the attendee entry add_email_as_guest appends for an address
NewGuest(email) == [email |-> email, responseStatus |-> accepted]

\* the remote attendee list of an event once add_email_as_guest has been called
\* on it for `first` and then for `second` and both patch calls succeeded: the
\* list the second call submits
AfterBoth(event, first, second) ==
    LET r1 == add_email_as_guest(event, first, TRUE)
        r2 == add_email_as_guest(r1.event, second, TRUE)
    IN  r2.body["attendees"]

\* the fetched events that lack both targets, the targets being distinct
LackBoth ==
    { k \in DOMAIN fetched :
        /\ k \in Range(events_to_update_secondary)
        /\ k \in Range(events_to_update_tertiary)
        /\ self["secondary_email"] # self["tertiary_email"] }

\* both patch calls of this run for the event, one per target, succeeded
BothAdded(k) ==
    \E p, q \in DOMAIN patches :
        /\ patches[p].ref = k /\ patches[p].email = self["secondary_email"] /\ patches[p].ok
        /\ patches[q].ref = k /\ patches[q].email = self["tertiary_email"] /\ patches[q].ok

\* C13: for an event that lacked two distinct targets and whose two patch calls
\* succeeded, the remote attendee set is the original attendee set plus the two
\* new entries, and it is the set the two calls give in the other order.
C13_AppendsCommute ==
    \A k \in LackBoth :
        BothAdded(k) =>
            LET a == self["secondary_email"]
                b == self["tertiary_email"]
                now == Range(AttendeesOf(RemoteEvent(fetched[k]["id"])))
            IN  /\ now = Range(AttendeesOf(fetched[k])) \cup { NewGuest(a), NewGuest(b) }
                /\ now = Range(AfterBoth(fetched[k], a, b))
                /\ now = Range(AfterBoth(fetched[k], b, a))

-----------------------------------------------------------------------------
(* C14 *)

\* an attendee entry of the event carries exactly this address
Listed(event, email) ==
    \E k \in DOMAIN AttendeesOf(event) : AttendeesOf(event)[k]["email"] = email

\* the fetched events whose remote attendee list gained the address in this run
Gained(email) ==
    { k \in DOMAIN fetched :
        ~Listed(fetched[k], email) /\ Listed(RemoteEvent(fetched[k]["id"]), email) }

\* C14: at the end of a run, an address for which add_email_as_guest returned
\* False is not on the event's remote attendee list.
C14_ReportsMatchRemote ==
    EndedInProcessing =>
        \A p \in DOMAIN patches :
            ~patches[p].returned =>
                ~Listed(RemoteEvent(patches[p].event_id), patches[p].email)

\* C14, in its other wording: at the end of a run the count of successful
\* additions of each target is the number of events that gained it.
C14_CountsMatchRemote ==
    EndedInProcessing =>
        /\ successful_secondary_updates = Cardinality(Gained(self["secondary_email"]))
        /\ variant = "scripts" =>
            successful_tertiary_updates = Cardinality(Gained(self["tertiary_email"]))

=============================================================================
